---- MODULE Spec2Model ----
(***************************************************************************)
(* Reliability layer of the Task Management API (system-design-lab):       *)
(*   - idempotencyMiddleware and the POST /tasks, PUT /tasks/:taskId and   *)
(*     DELETE /tasks/:taskId route handlers, sharing Redis, the database   *)
(*     and the RabbitMQ main queue between API instances;                  *)
(*   - withRetry, the bounded retry wrapper;                               *)
(*   - the notification worker: the consume callback, handleFailure, the   *)
(*     main / retry / dead-letter queues and the ProcessedMessage ledger.  *)
(* One request is one process; a step is the code between two awaits.      *)
(***************************************************************************)
EXTENDS Integers, Sequences, FiniteSets, TLC

\* ------------------------------------------------------------------ bounds
NReq == 2            \* concurrent HTTP requests
MaxRetries == 4      \* largest `retries` option tried on withRetry
NWorkers == 2        \* notification workers consuming the main queue
NMsg == 2            \* messages in the main queue when the workers start
MaxTime == 32        \* last day the cleanup job's clock reaches
NCache == 3          \* concurrent requests of the task-list cache runs

\* ------------------------------------------------------- program constants
PublishRetries == 3  \* retries option of the POST /tasks publish
MAX_RETRIES == 3     \* handleFailure: const MAX_RETRIES = 3
DAYS == 30           \* cleanup job: const DAYS = 30
GetRetries == 2      \* retries option of the GET /tasks cache calls

Reqs == 1..NReq
Keys == {"k1"}
NoKey == "none"

\* ------------------------------------------------------------------ values
NoData == 0
NoBody == [status |-> "", message |-> "", data |-> NoData]
NoResp == [status |-> 0, body |-> NoBody]

\* Redis values are strings; a string is modelled as a tagged tuple.
Nil    == <<"nil", 0, "", "", 0>>
Locked == <<"locked", 0, "", "", 0>>

\* JSON.stringify({status, body}) and JSON.parse of it
JSONstringify(p) == <<"json", p.status, p.body.status, p.body.message, p.body.data>>
JSONparse(s) == [status |-> s[2],
                 body |-> [status |-> s[3], message |-> s[4], data |-> s[5]]]

\* Redis key names
cacheKey(k) == <<"idem:response", k>>
lockKey(k)  == <<"idem:lock", k>>
saveKey(k)  == <<"idem", k>>
RKeys == {cacheKey(k) : k \in Keys} \cup {lockKey(k) : k \in Keys}
           \cup {saveKey(k) : k \in Keys}

\* `tasks:${JSON.stringify(req.query)}` of a GET /tasks without query
taskListKey == <<"tasks", "{}">>
ListKeys == {taskListKey}

\* Request inputs: method, Idempotency-Key header, body
Bodies == {"invalid", "full", "nodesc"}
ReqKinds ==
  [method : {"POST"}, key : Keys, body : Bodies]
  \cup [method : {"POST"}, key : {NoKey}, body : {"invalid", "full"}]
  \cup [method : {"PUT"}, key : Keys \cup {NoKey}, body : {"invalid", "full"}]
  \cup [method : {"DELETE"}, key : {NoKey}, body : {"full"}]

VARIABLES
  req,          \* the request as received
  pc,           \* where each request is
  idemKeySet,   \* req.idempotencyKey was set by the middleware
  resp,         \* the response sent to the client (NoResp: none yet)
  task,         \* the task row the handler committed (0: none)
  attempt,      \* withRetry's attempt counter of the publish
  evt,          \* metadata.eventId of the event built by POST (0: none)
  redis,        \* the shared Redis store
  queue,        \* messages in the main queue, in publish order
  dbSeq,        \* committed mutations so far (ids and versions come from it)
  lockOwner,    \* history: the request whose SET NX last created the lock
  expired,      \* history: Redis keys removed by their TTL at some time
  cacheErr,     \* history: requests whose middleware saw a Redis call throw
  fn,           \* withRetry: remaining outcomes of the wrapped operation
  retries,      \* withRetry: the retries option
  baseDelay,    \* withRetry: the baseDelay option
  shouldRetry,  \* withRetry: the shouldRetry option
  rAttempt,     \* withRetry: attempt
  calls,        \* withRetry: invocations of fn so far
  slept,        \* withRetry: the delays waited, in order
  rpc,          \* withRetry: position
  result,       \* withRetry: value returned or error thrown
  wk            \* the notification workers, their queues, the ledger and
                \* the ledger's cleanup job

apiVars == <<req, pc, idemKeySet, resp, task, attempt, evt, redis, queue, dbSeq, lockOwner, expired, cacheErr>>
retryVars == <<fn, retries, baseDelay, shouldRetry, rAttempt, calls, slept, rpc, result>>
workerVars == <<wk>>
vars == <<apiVars, retryVars, workerVars>>

\* ---------------------------------------------------------------- helpers
Upd(f, x, v) == [f EXCEPT ![x] = v]

RECURSIVE SetToSeq(_)
SetToSeq(S) ==
  IF S = {} THEN <<>>
  ELSE LET x == CHOOSE y \in S : TRUE IN <<x>> \o SetToSeq(S \ {x})

StatusStr(n) ==
  CASE n = 200 -> "200" [] n = 201 -> "201" [] n = 400 -> "400"
    [] n = 404 -> "404" [] n = 500 -> "500" [] OTHER -> ""

\* AppError(statusCode, message) as rendered by errorHandler:
\* res.status(statusCode).json({ status: statusCode, message })
AppError(statusCode, message) ==
  [status |-> statusCode,
   body |-> [status |-> StatusStr(statusCode), message |-> message, data |-> NoData]]

\* validateRequest's answer to a body that fails the Joi schema
ValidationError ==
  [status |-> 400,
   body |-> [status |-> "error", message |-> "Validation error", data |-> NoData]]

\* Express's final handler, reached when no route answers
NotFound ==
  [status |-> 404, body |-> [status |-> "", message |-> "Cannot POST /tasks", data |-> NoData]]

\* ----------------------------------------------------- idempotencyMiddleware
\* if (!key) return next()
HasKey(r) == req[r].key # NoKey

\* const cached = await redisClient.get(cacheKey)
MwCached(k) == redis[cacheKey(k)]

\* res.status(data.status).json(data.body)
MwReplay(cached) == JSONparse(cached)

AcquiredWithoutNX(k) == TRUE

AcquiredOnce(k) == lockOwner[k] = 0

\* redisClient.set(lockKey, "locked", { NX: true, PX: 10000 }) answers OK
\* only when the key does not exist
Acquired(k) == redis[lockKey(k)] = Nil

Conflict ==
  [status |-> 409,
   body |-> [status |-> "", data |-> NoData,
             message |-> "Request already in progress. Try again shortly."]]

\* the catch block of the middleware
MwUnavailable ==
  [status |-> 503,
   body |-> [status |-> "", data |-> NoData,
             message |-> "Idempotency service unavailable"]]

\* validateRequest(schema): does the body pass
BodyValid(r) == req[r].body # "invalid"

\* What follows next() of the middleware, up to the handler's first await:
\* validateRequest, then the handler's entry (POST: if (!req.idempotencyKey)
\* return next()).  Gives <<pc, response>>.
Entry(r, keySet) ==
  IF ~BodyValid(r) THEN <<"done", ValidationError>>
  ELSE IF req[r].method = "POST" /\ ~keySet THEN <<"done", NotFound>>
  ELSE <<"mutate", NoResp>>

\* the first step of a request without Idempotency-Key (DELETE has no
\* idempotencyMiddleware at all)
NoKeyStart(r) ==
  /\ pc[r] = "start"
  /\ ~HasKey(r)
  /\ pc' = Upd(pc, r, Entry(r, FALSE)[1])
  /\ resp' = Upd(resp, r, Entry(r, FALSE)[2])
  /\ UNCHANGED <<req, idemKeySet, task, attempt, evt, redis, queue, dbSeq, lockOwner, expired, cacheErr, retryVars, workerVars>>

\* lines 10-16: the lookup of the stored response
MwGet(r) ==
  /\ pc[r] = "start"
  /\ HasKey(r)
  /\ IF MwCached(req[r].key) # Nil
       THEN /\ resp' = Upd(resp, r, MwReplay(MwCached(req[r].key)))
            /\ pc' = Upd(pc, r, "done")
       ELSE /\ pc' = Upd(pc, r, "mwLock")
            /\ UNCHANGED resp
  /\ UNCHANGED <<req, idemKeySet, task, attempt, evt, redis, queue, dbSeq,
                 lockOwner, expired, cacheErr, retryVars, workerVars>>

\* lines 18-31: SET NX, then next() into validateRequest and the handler
MwLock(r) ==
  /\ pc[r] = "mwLock"
  /\ IF ~Acquired(req[r].key)
       THEN /\ resp' = Upd(resp, r, Conflict)
            /\ pc' = Upd(pc, r, "done")
            /\ UNCHANGED <<redis, lockOwner, idemKeySet>>
       ELSE /\ redis' = Upd(redis, lockKey(req[r].key), Locked)
            /\ lockOwner' = Upd(lockOwner, req[r].key, r)
            /\ idemKeySet' = Upd(idemKeySet, r, TRUE)
            /\ pc' = Upd(pc, r, Entry(r, TRUE)[1])
            /\ resp' = Upd(resp, r, Entry(r, TRUE)[2])
  /\ UNCHANGED <<req, task, attempt, evt, queue, dbSeq, expired, cacheErr,
                 retryVars, workerVars>>

\* lines 32-35: redisClient.get or redisClient.set rejects; the catch block
\* decides.  Gives <<pc, response>>.
MwCatchFailOpen(r) == <<"mutate", NoResp>>

MwCatch(r) == <<"done", MwUnavailable>>

MwThrows(r) ==
  /\ pc[r] \in {"start", "mwLock"}
  /\ HasKey(r)
  /\ cacheErr' = cacheErr \cup {r}
  /\ pc' = Upd(pc, r, MwCatch(r)[1])
  /\ resp' = Upd(resp, r, MwCatch(r)[2])
  /\ UNCHANGED <<req, idemKeySet, task, attempt, evt, redis, queue, dbSeq,
                 lockOwner, expired, retryVars, workerVars>>

\* ------------------------------------------------------------ route handlers
IsPost(r) == req[r].method = "POST"
IsPut(r) == req[r].method = "PUT"
IsDelete(r) == req[r].method = "DELETE"

\* Where a failure inside the handler's try leaves the request: POST has a
\* finally block that deletes the lock, PUT and DELETE have none.
ErrorExit(r) == IF IsPost(r) THEN "finally" ELSE "done"

\* the generic message of the handler's catch block
FailedMsg(r) ==
  IF IsPost(r) THEN "Failed to create task"
  ELSE IF IsPut(r) THEN "Failed to update task" ELSE "Failed to delete task"

Fail(r, response) ==
  /\ resp' = Upd(resp, r, response)
  /\ pc' = Upd(pc, r, ErrorExit(r))

\* the body the handler answers with on success
SuccessBody(r) ==
  IF IsPost(r)
    THEN [status |-> "201", message |-> "Task created successfully", data |-> task[r]]
  ELSE IF IsPut(r)
    THEN [status |-> "200", message |-> "Task updated successfully", data |-> task[r]]
  ELSE [status |-> "200", message |-> "Task deleted successfully", data |-> NoData]

SuccessStatus(r) == IF IsPost(r) THEN 201 ELSE 200

\* responsePayload of POST; { status, body } of saveIdempotentResponse
ResponsePayload(r) == [status |-> SuccessStatus(r), body |-> SuccessBody(r)]

\* The database work of the handler: the checks that precede the write and
\* the write itself.  A business error or a database failure answers through
\* next(AppError(...)); nothing is committed.
DbErrors(r) ==
  IF IsPost(r)
    THEN {AppError(400, "User does not exist"),
          AppError(400, "Category does not exist"),
          AppError(400, "Invalid userId or categoryId"),
          AppError(500, FailedMsg(r))}
  ELSE IF IsPut(r)
    THEN {AppError(404, "Task not found. Please check the task ID."),
          AppError(400, "Invalid userId or categoryId. The referenced record does not exist."),
          AppError(500, FailedMsg(r))}
  ELSE {AppError(404, "Task not found. Cannot delete a non-existent task"),
        AppError(500, FailedMsg(r))}

MutateFail(r) ==
  /\ pc[r] = "mutate"
  /\ \E e \in DbErrors(r) : Fail(r, e)
  /\ UNCHANGED <<req, idemKeySet, task, attempt, evt, redis, queue, dbSeq, lockOwner, expired, cacheErr, retryVars, workerVars>>

\* After the commit: POST always saves the response (it only runs with a
\* key), PUT saves it if (req.idempotencyKey), DELETE never.
AfterCommit(r) ==
  IF IsPost(r) \/ (IsPut(r) /\ idemKeySet[r]) THEN "saveResp" ELSE "invalidate"

\* prisma.task.create / update / delete succeeds
MutateOk(r) ==
  /\ pc[r] = "mutate"
  /\ dbSeq' = dbSeq + 1
  /\ task' = Upd(task, r, dbSeq + 1)
  /\ pc' = Upd(pc, r, AfterCommit(r))
  /\ UNCHANGED <<req, idemKeySet, resp, attempt, evt, redis, queue, lockOwner, expired, cacheErr, retryVars, workerVars>>

\* The key the completed response is written under: POST writes
\* idem:response:<key> itself, PUT calls saveIdempotentResponse, which
\* writes idem:<key>.
ResultKey(r) == IF IsPost(r) THEN cacheKey(req[r].key) ELSE saveKey(req[r].key)

SaveResp(r) ==
  /\ pc[r] = "saveResp"
  /\ redis' = Upd(redis, ResultKey(r), JSONstringify(ResponsePayload(r)))
  /\ pc' = Upd(pc, r, "release")
  /\ UNCHANGED resp
  /\ UNCHANGED <<req, idemKeySet, task, attempt, evt, queue,
                 dbSeq, lockOwner, expired, cacheErr, retryVars, workerVars>>

\* await redisClient.del(lockKey)
Release(r) ==
  /\ pc[r] = "release"
  /\ redis' = Upd(redis, lockKey(req[r].key), Nil)
  /\ pc' = Upd(pc, r, "invalidate")
  /\ UNCHANGED resp
  /\ UNCHANGED <<req, idemKeySet, task, attempt, evt, queue,
                 dbSeq, lockOwner, expired, cacheErr, retryVars, workerVars>>

\* the keys redisClient.keys("tasks:*") matches among the modelled keys
TaskListKeys == {k \in RKeys \cup ListKeys : k[1] = "tasks"}

invalidateTaskCache(store) ==
  [k \in DOMAIN store |-> IF k \in TaskListKeys THEN Nil ELSE store[k]]

\* A Redis call of the handler (the set of the response, the del of the
\* lock, the keys/del of invalidateTaskCache) rejects: the catch block
\* answers 500 through next(AppError(...)).
RedisThrows(r) ==
  /\ pc[r] \in {"saveResp", "release", "invalidate"}
  /\ Fail(r, AppError(500, FailedMsg(r)))
  /\ UNCHANGED <<req, idemKeySet, task, attempt, evt, redis, queue, dbSeq,
                 lockOwner, expired, cacheErr, retryVars, workerVars>>

\* ---- events
\* An event as serialized to the queue.  desc is the task's description
\* ("null" when the body gave none), eventId is metadata.eventId (0 when
\* the message has no metadata).
TaskCreatedEventFreshId(r, uuid) ==
  [type |-> "task.created", payload |-> task[r],
   desc |-> IF req[r].body = "nodesc" THEN "null" ELSE "text",
   eventId |-> uuid + NReq * attempt[r]]

TaskCreatedEvent(r, uuid) ==
  [type |-> "task.created", payload |-> task[r],
   desc |-> IF req[r].body = "nodesc" THEN "null" ELSE "text",
   eventId |-> uuid]

\* the message PUT and DELETE send: { type, timestamp, payload }
PlainEvent(r) ==
  [type |-> IF IsPut(r) THEN "task.updated" ELSE "task.deleted",
   payload |-> task[r], desc |-> "text", eventId |-> 0]

\* taskCreatedEventSchema.validate(event) reports no error
taskCreatedEventSchema(e) ==
  /\ e.type = "task.created"
  /\ e.payload # NoData
  /\ e.desc # "null"
  /\ e.eventId # 0

\* crypto.randomUUID(): a value no other draw gives.  A request draws once,
\* so its own number stands for the value drawn.
randomUUID(r) == r

\* invalidateTaskCache(), then (POST) the event is built and validated
Invalidate(r) ==
  /\ pc[r] = "invalidate"
  /\ redis' = invalidateTaskCache(redis)
  /\ IF IsPost(r)
       THEN /\ evt' = Upd(evt, r, randomUUID(r))
            /\ IF taskCreatedEventSchema(TaskCreatedEvent(r, randomUUID(r)))
                 THEN /\ pc' = Upd(pc, r, "publish")
                      /\ UNCHANGED resp
                 ELSE Fail(r, AppError(500, "Internal event formatting error"))
       ELSE /\ pc' = Upd(pc, r, "publish")
            /\ UNCHANGED <<resp, evt>>
  /\ UNCHANGED <<req, idemKeySet, task, attempt, queue,
                 dbSeq, lockOwner, expired, cacheErr, retryVars, workerVars>>

\* ------------------------------------------------------------------ withRetry
GivesUpIgnoringPredicate(att, maxAttempts, should) == att >= maxAttempts

GivesUpOneEarly(att, maxAttempts, should) == att + 1 >= maxAttempts \/ ~should

\* if (attempt >= retries || !shouldRetry(error)) throw error
\* (attempt already incremented)
GivesUp(att, maxAttempts, should) == att >= maxAttempts \/ ~should

BackoffFromBase(base, att) == base * 2^(att - 1)

\* const delay = baseDelay * Math.pow(2, attempt)
Backoff(base, att) == base * 2^att

\* sendMessageToQueue(TASK_EVENTS_QUEUE, message)
sendMessageToQueue(q, message) == Append(q, message)

\* the publish: POST wraps sendMessageToQueue in withRetry(retries: 3,
\* shouldRetry: () => true) and then answers 201; PUT and DELETE call it once
\* and then answer 200.  One step is one attempt; sendMessageToQueue throws
\* when RabbitMQ cannot be reached.
PublishOk(r) ==
  /\ pc[r] = "publish"
  /\ queue' = sendMessageToQueue(queue,
       IF IsPost(r) THEN TaskCreatedEvent(r, evt[r]) ELSE PlainEvent(r))
  /\ resp' = Upd(resp, r, [status |-> SuccessStatus(r), body |-> SuccessBody(r)])
  /\ pc' = Upd(pc, r, ErrorExit(r))
  /\ UNCHANGED <<req, idemKeySet, task, attempt, evt, redis, dbSeq, lockOwner, expired, cacheErr, retryVars, workerVars>>

\* What a failed publish attempt leads to: <<gives up, attempt>>.
PublishFailure(r) ==
  IF IsPost(r)
    THEN <<GivesUp(attempt[r] + 1, PublishRetries, TRUE), attempt[r] + 1>>
    ELSE <<TRUE, attempt[r]>>

PublishThrows(r) ==
  /\ pc[r] = "publish"
  /\ attempt' = Upd(attempt, r, PublishFailure(r)[2])
  /\ IF PublishFailure(r)[1]
       THEN Fail(r, AppError(500, FailedMsg(r)))
       ELSE UNCHANGED <<pc, resp>>
  /\ UNCHANGED <<req, idemKeySet, task, evt, redis, queue, dbSeq, lockOwner, expired, cacheErr, retryVars, workerVars>>

\* finally { await redisClient.del(lockKey).catch(() => {}) }
Finally(r) ==
  /\ pc[r] = "finally"
  /\ \/ redis' = Upd(redis, lockKey(req[r].key), Nil)
     \/ UNCHANGED redis     \* the del rejects and .catch swallows it
  /\ pc' = Upd(pc, r, "done")
  /\ UNCHANGED <<req, idemKeySet, resp, task, attempt, evt, queue, dbSeq, lockOwner, expired, cacheErr, retryVars, workerVars>>

\* ---------------------------------------------------------------- environment
\* Every idem:* entry is written with an expiry (PX 10000, EX 3600, EX 600):
\* Redis removes it when the time is up.
HasTTL(key) == TRUE

Expire(key) ==
  /\ redis[key] # Nil
  /\ HasTTL(key)
  /\ redis' = Upd(redis, key, Nil)
  /\ expired' = expired \cup {key}
  /\ UNCHANGED <<req, pc, idemKeySet, resp, task, attempt, evt, queue, dbSeq, lockOwner, cacheErr, retryVars, workerVars>>

\* ---------------------------------------------------- withRetry as a machine
Outcomes == {"ok", "transient", "fatal"}
NoResult == <<"none", "", 0>>

\* shouldRetry(error) under the option given: the default () => true, or a
\* predicate that refuses fatal errors
ShouldRetry(opt, kind) == opt = "always" \/ kind # "fatal"

IdleRetry ==
  /\ fn = <<>> /\ retries = 0 /\ baseDelay = 0 /\ shouldRetry = "always"
  /\ rAttempt = 0 /\ calls = 0 /\ slept = <<>> /\ rpc = "idle"
  /\ result = NoResult

InitRetry ==
  /\ fn \in [1..MaxRetries -> Outcomes]
  /\ retries \in 0..MaxRetries
  /\ baseDelay \in {100, 300}
  /\ shouldRetry \in {"always", "notFatal"}
  /\ rAttempt = 0 /\ calls = 0 /\ slept = <<>> /\ rpc = "loop"
  /\ result = NoResult

\* while (attempt < retries) { try { return await fn() } catch ... }
RetryCall ==
  /\ rpc = "loop"
  /\ rAttempt < retries
  /\ calls' = calls + 1
  /\ IF fn[calls + 1] = "ok"
       THEN /\ result' = <<"returned", "ok", calls + 1>>
            /\ rpc' = "done"
            /\ UNCHANGED rAttempt
       ELSE /\ rAttempt' = rAttempt + 1
            /\ IF GivesUp(rAttempt + 1, retries, ShouldRetry(shouldRetry, fn[calls + 1]))
                 THEN /\ result' = <<"threw", fn[calls + 1], calls + 1>>
                      /\ rpc' = "done"
                 ELSE /\ rpc' = "sleep"
                      /\ UNCHANGED result
  /\ UNCHANGED <<fn, retries, baseDelay, shouldRetry, slept, apiVars, workerVars>>

\* await new Promise((res) => setTimeout(res, delay))
RetrySleep ==
  /\ rpc = "sleep"
  /\ slept' = Append(slept, Backoff(baseDelay, rAttempt))
  /\ rpc' = "loop"
  /\ UNCHANGED <<fn, retries, baseDelay, shouldRetry, rAttempt, calls, result, apiVars, workerVars>>

\* the loop is never entered (retries <= 0): the function ends without a value
RetryFallThrough ==
  /\ rpc = "loop"
  /\ ~(rAttempt < retries)
  /\ result' = <<"returned", "undefined", 0>>
  /\ rpc' = "done"
  /\ UNCHANGED <<fn, retries, baseDelay, shouldRetry, rAttempt, calls, slept, apiVars, workerVars>>

\* ------------------------------------------------------------- GET /tasks
CReqs == 1..NCache
IsGet(r) == req[r].method = "GET"
GetKind == [method |-> "GET", key |-> NoKey, body |-> "full"]

\* responsePayload of GET /tasks; the tasks read are stood for by the number
\* of mutations committed when they were read
ListPayload(v) ==
  [status |-> 200, body |-> [status |-> "200", message |-> "", data |-> v]]

\* What the handler does once withRetry has thrown: <<pc, response>>.
GetCatchFails(r, at) == <<"done", AppError(500, "Failed to fetch tasks")>>

\* catch { console.warn(...) }: after the get the handler goes on to the
\* database, after the set it answers
GetCatch(r, at) ==
  IF at = "cacheGet" THEN <<"dbRead", NoResp>>
  ELSE <<"done", ListPayload(task[r])>>

\* withRetry(() => redisClient.get(cacheKey)) returns: a hit is answered at
\* once, a miss goes on to the database
GetCacheOk(r) ==
  /\ pc[r] = "cacheGet"
  /\ IF redis[taskListKey] # Nil
       THEN /\ resp' = Upd(resp, r, JSONparse(redis[taskListKey]))
            /\ pc' = Upd(pc, r, "done")
       ELSE /\ pc' = Upd(pc, r, "dbRead")
            /\ UNCHANGED resp
  /\ attempt' = Upd(attempt, r, 0)
  /\ UNCHANGED <<req, idemKeySet, task, evt, redis, queue, dbSeq, lockOwner, expired, cacheErr, retryVars, workerVars>>

\* an attempt of the wrapped redisClient.get or redisClient.set rejects:
\* withRetry tries again or throws into the handler's inner catch
GetCacheThrows(r) ==
  /\ pc[r] \in {"cacheGet", "cacheSet"}
  /\ IF GivesUp(attempt[r] + 1, GetRetries, TRUE)
       THEN /\ cacheErr' = cacheErr \cup {r}
            /\ attempt' = Upd(attempt, r, 0)
            /\ pc' = Upd(pc, r, GetCatch(r, pc[r])[1])
            /\ resp' = Upd(resp, r, GetCatch(r, pc[r])[2])
       ELSE /\ attempt' = Upd(attempt, r, attempt[r] + 1)
            /\ UNCHANGED <<pc, resp, cacheErr>>
  /\ UNCHANGED <<req, idemKeySet, task, evt, redis, queue, dbSeq, lockOwner, expired, retryVars, workerVars>>

\* if (redisAvailable) is false: the cache call is skipped
GetNoRedis(r) ==
  /\ pc[r] \in {"cacheGet", "cacheSet"}
  /\ attempt[r] = 0
  /\ pc' = Upd(pc, r, IF pc[r] = "cacheGet" THEN "dbRead" ELSE "done")
  /\ resp' = Upd(resp, r, IF pc[r] = "cacheGet" THEN NoResp ELSE ListPayload(task[r]))
  /\ UNCHANGED <<req, idemKeySet, task, attempt, evt, redis, queue, dbSeq, lockOwner, expired, cacheErr, retryVars, workerVars>>

\* prisma.task.count and prisma.task.findMany return
GetDbRead(r) ==
  /\ pc[r] = "dbRead"
  /\ task' = Upd(task, r, dbSeq)
  /\ pc' = Upd(pc, r, "cacheSet")
  /\ UNCHANGED <<req, idemKeySet, resp, attempt, evt, redis, queue, dbSeq, lockOwner, expired, cacheErr, retryVars, workerVars>>

\* a prisma call rejects: the outer catch only warns, nothing is answered
GetDbThrows(r) ==
  /\ pc[r] = "dbRead"
  /\ pc' = Upd(pc, r, "done")
  /\ UNCHANGED <<req, idemKeySet, resp, task, attempt, evt, redis, queue, dbSeq, lockOwner, expired, cacheErr, retryVars, workerVars>>

\* withRetry(() => redisClient.set(cacheKey, JSON.stringify(responsePayload),
\* { EX: 30 })) returns, then res.status(200).json(responsePayload)
GetCacheSet(r) ==
  /\ pc[r] = "cacheSet"
  /\ redis' = Upd(redis, taskListKey, JSONstringify(ListPayload(task[r])))
  /\ resp' = Upd(resp, r, ListPayload(task[r]))
  /\ pc' = Upd(pc, r, "done")
  /\ attempt' = Upd(attempt, r, 0)
  /\ UNCHANGED <<req, idemKeySet, task, evt, queue, dbSeq, lockOwner, expired, cacheErr, retryVars, workerVars>>

\* GET /tasks beside the mutations that need no Idempotency-Key
CacheKinds ==
  {GetKind,
   [method |-> "PUT", key |-> NoKey, body |-> "full"],
   [method |-> "DELETE", key |-> NoKey, body |-> "full"]}

CacheKindList == SetToSeq(CacheKinds)

InitCache ==
  /\ \E idx \in [CReqs -> 1..Len(CacheKindList)] :
        /\ \A r \in CReqs : r + 1 \in CReqs => idx[r] <= idx[r + 1]
        /\ req = [r \in CReqs |-> CacheKindList[idx[r]]]
        /\ pc = [r \in CReqs |->
                   IF CacheKindList[idx[r]] = GetKind THEN "cacheGet" ELSE "start"]
  /\ idemKeySet = [r \in CReqs |-> FALSE]
  /\ resp = [r \in CReqs |-> NoResp]
  /\ task = [r \in CReqs |-> NoData]
  /\ attempt = [r \in CReqs |-> 0]
  /\ evt = [r \in CReqs |-> 0]
  /\ redis = [k \in RKeys \cup ListKeys |-> Nil]
  /\ queue = <<>>
  /\ dbSeq = 0
  /\ lockOwner = [k \in Keys |-> 0]
  /\ expired = {}
  /\ cacheErr = {}

\* ------------------------------------------------------ notification worker
Workers == 1..NWorkers
Tags == 1..NMsg
EventIds == {1}

\* the fields of wk
MAIN == wk.MAIN                          \* the main queue (QUEUE_NAME), oldest first
RETRY == wk.RETRY                        \* the retry queue (RETRY_QUEUE), oldest first
DLQ == wk.DLQ                            \* the dead-letter queue
processedMessage == wk.processedMessage  \* rows of the ProcessedMessage table
wpc == wk.wpc                            \* where each worker's callback is
cur == wk.cur                            \* the delivery each worker holds unacknowledged
emails == wk.emails                      \* emails sent so far, per eventId
acks == wk.acks                          \* history: channel.ack calls, per message
returned == wk.returned                  \* history: moves from retry to main, per message
poison == wk.poison                      \* input: the eventIds whose email always fails
sent == wk.sent                          \* input: the content of each message first put in main

\* message.content: the bytes of a message.  syntax tells whether the bytes
\* are JSON text; the other fields are the event the text stands for.
Garbage == [syntax |-> "garbage", type |-> "", payload |-> NoData, desc |-> "", eventId |-> 0]
Event(ty, id) == [syntax |-> "json", type |-> ty, payload |-> 1, desc |-> "text", eventId |-> id]

\* what the main queue can hold: bytes that are not JSON, the message PUT
\* publishes (no metadata), a task.created event without metadata, and
\* well-formed task.created events
Contents ==
  {Garbage, Event("task.updated", 0), Event("task.created", 0)}
  \cup {Event("task.created", id) : id \in EventIds}

\* the inputs tried for the eventIds whose email always fails
PoisonChoices == {{}, {1}}

\* a message in a queue or held by a worker: its content, its x-retry-count
\* header (0: no header) and the number of the original message it continues
NoMsg == [content |-> Garbage, count |-> 0, tag |-> 0]

\* JSON.parse(message.content.toString()) returns (does not throw)
JSONparses(content) == content.syntax = "json"

\* data?.metadata?.eventId
messageId(content) == content.eventId

neverProcessed(rows, id) == FALSE

\* prisma.processedMessage.findUnique({ where: { messageId } }) finds a row
alreadyProcessed(rows, id) == \E i \in 1..Len(rows) : rows[i].messageId = id

NoUniqueIndex(rows, id) == FALSE

\* CREATE UNIQUE INDEX "ProcessedMessage_messageId_key": the insert is rejected
UniqueViolation(rows, id) == \E i \in 1..Len(rows) : rows[i].messageId = id

RetriesExhaustedLate(retryCount) == retryCount > MAX_RETRIES

\* if (retryCount >= MAX_RETRIES)
RetriesExhausted(retryCount) == retryCount >= MAX_RETRIES

sendToNowhere(q, m, headerCount) == q

\* channel.sendToQueue(queue, message.content, { headers }): a new message
\* with the same content and the headers given
sendToQueue(q, m, headerCount) == Append(q, [m EXCEPT !.count = headerCount])

AckForgotten(k, w, m) ==
  [k EXCEPT !.wpc = IF w = 0 THEN @ ELSE [@ EXCEPT ![w] = "idle"],
            !.cur = IF w = 0 THEN @ ELSE [@ EXCEPT ![w] = NoMsg]]

\* channel.ack(message) as the callback's last statement: the delivery m is
\* settled and worker w (0: the callback never awaited) is free again
Ack(k, w, m) ==
  [k EXCEPT !.acks[m.tag] = @ + 1,
            !.wpc = IF w = 0 THEN @ ELSE [@ EXCEPT ![w] = "idle"],
            !.cur = IF w = 0 THEN @ ELSE [@ EXCEPT ![w] = NoMsg]]

handleFailureAckOnly(k, w, m) == Ack(k, w, m)

\* handleFailure(channel, message)
handleFailure(k, w, m) ==
  IF RetriesExhausted(m.count)
    THEN Ack([k EXCEPT !.DLQ = sendToQueue(@, m, 0)], w, m)
    ELSE Ack([k EXCEPT !.RETRY = sendToQueue(@, m, m.count + 1)], w, m)

\* a delivery from the main queue starts the callback, which runs up to its
\* first await: parse, validate, read the eventId.  Workers are
\* interchangeable: the delivery goes to the first idle one.
Receive(w) ==
  /\ wpc[w] = "idle"
  /\ \A v \in Workers : v < w => wpc[v] # "idle"
  /\ MAIN # <<>>
  /\ LET m == Head(MAIN)
         k == [wk EXCEPT !.MAIN = Tail(@)]
     IN wk' =
          IF ~JSONparses(m.content)
            THEN \* JSON.parse throws inside the try: the catch runs
                 handleFailure(k, 0, m)
            ELSE IF ~taskCreatedEventSchema(m.content)
              THEN Ack([k EXCEPT !.DLQ = sendToQueue(@, m, 0)], 0, m)
              ELSE IF messageId(m.content) = 0
                THEN Ack(k, 0, m)
                ELSE [k EXCEPT !.wpc[w] = "findUnique", !.cur[w] = m]
  /\ UNCHANGED <<apiVars, retryVars>>

\* await prisma.processedMessage.findUnique(...) returns
Lookup(w) ==
  /\ wpc[w] = "findUnique"
  /\ wk' = IF alreadyProcessed(processedMessage, messageId(cur[w].content))
             THEN Ack(wk, w, cur[w])
             ELSE [wk EXCEPT !.wpc[w] = "fakeEmailSender"]
  /\ UNCHANGED <<apiVars, retryVars>>

\* await fakeEmailSender(data) returns: the email was sent, or the user was
\* not found and nothing was sent
WorkOk(w) ==
  /\ wpc[w] = "fakeEmailSender"
  /\ messageId(cur[w].content) \notin poison
  /\ \E userFound \in BOOLEAN :
       wk' = [wk EXCEPT !.wpc[w] = "create",
                        !.emails[messageId(cur[w].content)] =
                           IF userFound THEN @ + 1 ELSE @]
  /\ UNCHANGED <<apiVars, retryVars>>

\* await fakeEmailSender(data) throws ("Random failure", or the user lookup
\* rejects): the catch runs
WorkFails(w) ==
  /\ wpc[w] = "fakeEmailSender"
  /\ wk' = handleFailure(wk, w, cur[w])
  /\ UNCHANGED <<apiVars, retryVars>>

\* await prisma.processedMessage.create(...): the row is inserted and the
\* message acknowledged, or the unique index rejects it and the catch runs
Create(w) ==
  /\ wpc[w] = "create"
  /\ wk' = IF UniqueViolation(processedMessage, messageId(cur[w].content))
             THEN handleFailure(wk, w, cur[w])
             ELSE Ack([wk EXCEPT !.processedMessage = Append(@,
                         [messageId |-> messageId(cur[w].content),
                          type |-> cur[w].content.type])],
                      w, cur[w])
  /\ UNCHANGED <<apiVars, retryVars>>

\* a prisma call of the callback rejects (the database cannot be reached):
\* the catch runs
PrismaThrows(w) ==
  /\ wpc[w] \in {"findUnique", "create"}
  /\ wk' = handleFailure(wk, w, cur[w])
  /\ UNCHANGED <<apiVars, retryVars>>

\* x-message-ttl on the retry queue: the oldest message expires and is
\* dead-lettered to the main queue, headers kept
RetryTtl ==
  /\ RETRY # <<>>
  /\ wk' = [wk EXCEPT !.MAIN = Append(@, Head(RETRY)),
                      !.RETRY = Tail(@),
                      !.returned[Head(RETRY).tag] = @ + 1]
  /\ UNCHANGED <<apiVars, retryVars>>

\* no worker is started and nothing was published
IdleWorker == wk = <<>>

InitWorker ==
  \E c \in [Tags -> Contents], p \in PoisonChoices :
    wk = [MAIN |-> [t \in Tags |-> [content |-> c[t], count |-> 0, tag |-> t]],
          RETRY |-> <<>>,
          DLQ |-> <<>>,
          processedMessage |-> <<>>,
          wpc |-> [w \in Workers |-> "idle"],
          cur |-> [w \in Workers |-> NoMsg],
          emails |-> [id \in EventIds |-> 0],
          acks |-> [t \in Tags |-> 0],
          returned |-> [t \in Tags |-> 0],
          poison |-> p,
          sent |-> c]

\* ---------------------------------------------------------- cleanup job
\* The ledger with its processedAt column, the clock, a worker reduced to
\* its ledger lookup and insert, and the cleanup job.  Time is counted in
\* days (one day is 24 * 60 * 60 * 1000 ms of Date.now()).
now == wk.now           \* Date.now()
done == wk.done         \* history: when each eventId was last inserted (-1: never)
deleted == wk.deleted   \* result.count of the last cleanup run (-1: none yet)
seen == wk.seen         \* history: the last lookup of each eventId
ranAt == wk.ranAt       \* history: when the cleanup job last ran (-1: never)

NoLookup == [res |-> "none", at |-> 0, since |-> -1]

EvictedInclusive(row, limit) == row.processedAt <= limit

\* where: { processedAt: { lt: cutoff } }
Evicted(row, limit) == row.processedAt < limit

\* const cutoff = new Date(Date.now() - DAYS * 24 * 60 * 60 * 1000)
cutoff(t) == t - DAYS

Kept(row) == ~Evicted(row, cutoff(now))

\* the clock moves on
Tick ==
  /\ now < MaxTime
  /\ \E t \in (now + 1)..MaxTime : wk' = [wk EXCEPT !.now = t]
  /\ UNCHANGED <<apiVars, retryVars>>

\* a delivery of the event id: findUnique, and on a miss the work and the
\* insert with processedAt: new Date()
Deliver(id) ==
  /\ wk' = IF alreadyProcessed(processedMessage, id)
             THEN [wk EXCEPT !.seen[id] = [res |-> "hit", at |-> now, since |-> done[id]]]
             ELSE [wk EXCEPT !.seen[id] = [res |-> "miss", at |-> now, since |-> done[id]],
                             !.done[id] = now,
                             !.processedMessage = Append(@,
                                [messageId |-> id, type |-> "task.created", processedAt |-> now])]
  /\ UNCHANGED <<apiVars, retryVars>>

\* cleanup(): deleteMany of the rows older than the cutoff
Cleanup ==
  /\ ranAt # now
  /\ wk' = [wk EXCEPT !.processedMessage = SelectSeq(@, Kept),
                      !.deleted = Len(processedMessage) - Len(SelectSeq(processedMessage, Kept)),
                      !.ranAt = now]
  /\ UNCHANGED <<apiVars, retryVars>>

InitCleanup ==
  wk = [processedMessage |-> <<>>,
        now |-> 0,
        done |-> [id \in EventIds |-> -1],
        deleted |-> -1,
        seen |-> [id \in EventIds |-> NoLookup],
        ranAt |-> -1]

\* ------------------------------------------------------------ specifications
\* Requests are interchangeable: the inputs are drawn in one order only.
KindList == SetToSeq(ReqKinds)

InitApi ==
  /\ \E idx \in [Reqs -> 1..Len(KindList)] :
        /\ \A r \in Reqs : r + 1 \in Reqs => idx[r] <= idx[r + 1]
        /\ req = [r \in Reqs |-> KindList[idx[r]]]
  /\ pc = [r \in Reqs |-> "start"]
  /\ idemKeySet = [r \in Reqs |-> FALSE]
  /\ resp = [r \in Reqs |-> NoResp]
  /\ task = [r \in Reqs |-> NoData]
  /\ attempt = [r \in Reqs |-> 0]
  /\ evt = [r \in Reqs |-> 0]
  /\ redis = [k \in RKeys |-> Nil]
  /\ queue = <<>>
  /\ dbSeq = 0
  /\ lockOwner = [k \in Keys |-> 0]
  /\ expired = {}
  /\ cacheErr = {}

IdleApi ==
  /\ req = [r \in Reqs |-> [method |-> "DELETE", key |-> NoKey, body |-> "full"]]
  /\ pc = [r \in Reqs |-> "done"]
  /\ idemKeySet = [r \in Reqs |-> FALSE]
  /\ resp = [r \in Reqs |-> NoResp]
  /\ task = [r \in Reqs |-> NoData]
  /\ attempt = [r \in Reqs |-> 0]
  /\ evt = [r \in Reqs |-> 0]
  /\ redis = [k \in RKeys |-> Nil]
  /\ queue = <<>>
  /\ dbSeq = 0
  /\ lockOwner = [k \in Keys |-> 0]
  /\ expired = {}
  /\ cacheErr = {}

Init == InitApi /\ IdleRetry /\ IdleWorker

Next ==
  \/ \E r \in Reqs : NoKeyStart(r)
  \/ \E r \in Reqs : MwGet(r)
  \/ \E r \in Reqs : MwLock(r)
  \/ \E r \in Reqs : MwThrows(r)
  \/ \E r \in Reqs : MutateFail(r)
  \/ \E r \in Reqs : MutateOk(r)
  \/ \E r \in Reqs : SaveResp(r)
  \/ \E r \in Reqs : Release(r)
  \/ \E r \in Reqs : Invalidate(r)
  \/ \E r \in Reqs : RedisThrows(r)
  \/ \E r \in Reqs : PublishOk(r)
  \/ \E r \in Reqs : PublishThrows(r)
  \/ \E r \in Reqs : Finally(r)
  \/ \E key \in RKeys : Expire(key)

Spec == Init /\ [][Next]_vars

InitR == IdleApi /\ InitRetry /\ IdleWorker

NextRetry == RetryCall \/ RetrySleep \/ RetryFallThrough

SpecRetry == InitR /\ [][NextRetry]_vars

InitW == IdleApi /\ IdleRetry /\ InitWorker

NextWorker ==
  \/ \E w \in Workers : Receive(w)
  \/ \E w \in Workers : Lookup(w)
  \/ \E w \in Workers : WorkOk(w)
  \/ \E w \in Workers : WorkFails(w)
  \/ \E w \in Workers : Create(w)
  \/ \E w \in Workers : PrismaThrows(w)
  \/ RetryTtl

SpecWorker == InitW /\ [][NextWorker]_vars

\* the broker keeps delivering and the retry queue's TTL keeps running
SpecWorkerFair == SpecWorker /\ WF_vars(NextWorker)

InitC == IdleApi /\ IdleRetry /\ InitCleanup

NextCleanup ==
  \/ Tick
  \/ \E id \in EventIds : Deliver(id)
  \/ Cleanup

SpecCleanup == InitC /\ [][NextCleanup]_vars

InitG == InitCache /\ IdleRetry /\ IdleWorker

NextCache ==
  \/ \E r \in CReqs : NoKeyStart(r)
  \/ \E r \in CReqs : MutateFail(r)
  \/ \E r \in CReqs : MutateOk(r)
  \/ \E r \in CReqs : Invalidate(r)
  \/ \E r \in CReqs : RedisThrows(r)
  \/ \E r \in CReqs : PublishOk(r)
  \/ \E r \in CReqs : PublishThrows(r)
  \/ \E r \in CReqs : GetCacheOk(r)
  \/ \E r \in CReqs : GetCacheThrows(r)
  \/ \E r \in CReqs : GetNoRedis(r)
  \/ \E r \in CReqs : GetDbRead(r)
  \/ \E r \in CReqs : GetDbThrows(r)
  \/ \E r \in CReqs : GetCacheSet(r)
  \/ \E key \in ListKeys : Expire(key)

SpecCache == InitG /\ [][NextCache]_vars

\* ===================================================================== claims
Proceeded(r) == idemKeySet[r]
Answered(r) == resp[r] # NoResp
Succeeded(r) == resp[r].status \in {200, 201}
PostsOf(k) == {r \in Reqs : IsPost(r) /\ req[r].key = k}

\* the step in which request r leaves the given position of the middleware
\* without a Redis call having thrown
Leaves(r, at) == pc[r] = at /\ pc'[r] # at /\ r \notin cacheErr'

\* C1: for a fixed Idempotency-Key, of the POST requests admitted
\* concurrently at most one is passed on to the route handler.  Stated within
\* the claim's scope: no entry of the key has been removed by its TTL and no
\* request that proceeded has ended in an error.
C1_AtMostOneProceed ==
  \A k \in Keys :
    ( /\ expired = {}
      /\ \A r \in PostsOf(k) : Proceeded(r) /\ Answered(r) => Succeeded(r) )
    => Cardinality({r \in PostsOf(k) : Proceeded(r)}) <= 1

\* the entries stored for key k as a completed response
SavedResponses(k) == {redis[cacheKey(k)], redis[saveKey(k)]} \ {Nil}

\* the responses of the requests with key k that have completed with
\* success and whose saved entry is still stored
CompletedResponses(k) ==
  {resp[o] : o \in {q \in Reqs : /\ req[q].key = k
                                 /\ pc[q] = "done"
                                 /\ Proceeded(q)
                                 /\ Succeeded(q)
                                 /\ JSONstringify(resp[q]) \in SavedResponses(k)}}

\* C2: once a request with key k has completed and saved its response, a later
\* request with key k (arriving while that entry is still stored) is answered
\* with the stored status and body and goes no further.
C2_ReplayAfterComplete ==
  [][\A r \in Reqs :
       (Leaves(r, "start") /\ HasKey(r) /\ CompletedResponses(req[r].key) # {})
       => /\ pc'[r] = "done"
          /\ resp'[r] \in CompletedResponses(req[r].key)]_vars

\* C3: a request that acquired the lock of its key has released it by the
\* time it is finished, whatever its exit path.
C3_LockReleasedOnExit ==
  \A r \in Reqs :
    (pc[r] = "done" /\ Proceeded(r))
    => ~(redis[lockKey(req[r].key)] # Nil /\ lockOwner[req[r].key] = r)

\* C4: a request whose result lookup or lock SET NX failed in Redis is
\* answered 503 and never reaches the route handler or the database.
C4_CacheFailureIs503 ==
  \A r \in cacheErr :
    /\ pc[r] = "done"
    /\ resp[r].status = 503
    /\ ~Proceeded(r)
    /\ task[r] = NoData

C4_Witness ==
  \E r \in cacheErr : pc[r] = "done" /\ resp[r] = MwUnavailable

\* C5: a request that reaches the lock step while the lock of its key is held
\* is answered 409 and executes nothing.
C5_HeldLockIs409 ==
  [][\A r \in Reqs :
       (Leaves(r, "mwLock") /\ redis[lockKey(req[r].key)] # Nil)
       => /\ resp'[r] = Conflict
          /\ pc'[r] = "done"
          /\ ~Proceeded(r)'
          /\ task'[r] = NoData]_vars

C5_Witness ==
  \E r \in Reqs :
    /\ resp[r].status = 409
    /\ task[r] = NoData
    /\ \E o \in Reqs : o # r /\ req[o].key = req[r].key /\ Proceeded(o)

\* C6: a POST /tasks without Idempotency-Key and with a valid body bypasses
\* the gate, creates the task and is answered 201.
C6_BypassStillCreates ==
  \A r \in Reqs :
    (IsPost(r) /\ ~HasKey(r) /\ BodyValid(r) /\ pc[r] = "done")
    => (resp[r].status = 201 /\ task[r] # NoData)

\* C7: once the lock of key k has been removed by its TTL and is absent, a
\* request that reaches the lock step is admitted, not answered 409.
C7_ExpiredLockReacquired ==
  [][\A r \in Reqs :
       ( /\ Leaves(r, "mwLock")
         /\ lockKey(req[r].key) \in expired
         /\ redis[lockKey(req[r].key)] = Nil )
       => (Proceeded(r)' /\ lockOwner'[req[r].key] = r /\ resp'[r].status # 409)]_vars

\* the first holder left without releasing, the lock expired, another request
\* then acquired it
C7_Witness ==
  \E r, o \in Reqs :
    /\ r # o /\ req[r].key = req[o].key
    /\ pc[o] = "done" /\ Proceeded(o) /\ ~Succeeded(o)
    /\ lockKey(req[r].key) \in expired
    /\ Proceeded(r) /\ lockOwner[req[r].key] = r
    /\ pc[r] = "mutate"

\* C8: when the publish of POST /tasks has failed for good after the task was
\* committed, the client is still answered 201.
C8_PublishFailureNotFatal ==
  \A r \in Reqs :
    ( /\ IsPost(r) /\ task[r] # NoData
      /\ attempt[r] >= PublishRetries
      /\ pc[r] \in {"finally", "done"} )
    => resp[r].status = 201

\* C9: every message in the main queue passed the event schema: it carries
\* type, payload and metadata.eventId.
C9_PublishedEventsValidated ==
  \A i \in 1..Len(queue) :
    /\ queue[i].type # ""
    /\ queue[i].payload # NoData
    /\ queue[i].eventId # 0

\* C10: withRetry invokes the operation at most `retries` times, every
\* invocation before the last one failed (nothing is invoked after a
\* success), and with retries = 3 an operation that fails twice and then
\* succeeds is invoked exactly 3 times and its result is returned.
C10_BoundedStopsAtSuccess ==
  /\ calls <= retries
  /\ \A i \in 1..(calls - 1) : fn[i] # "ok"
  /\ (rpc = "done" /\ calls > 0 /\ fn[calls] = "ok")
       => result = <<"returned", "ok", calls>>
  /\ ( /\ rpc = "done" /\ retries = 3
       /\ fn[1] # "ok" /\ fn[2] # "ok" /\ fn[3] = "ok"
       /\ \A i \in 1..2 : ShouldRetry(shouldRetry, fn[i]) )
       => (calls = 3 /\ result = <<"returned", "ok", 3>>)

C10_Witness ==
  /\ rpc = "done" /\ retries = 3
  /\ fn[1] # "ok" /\ fn[2] # "ok" /\ fn[3] = "ok"
  /\ calls = 3 /\ result = <<"returned", "ok", 3>>
  /\ Len(slept) = 2

RECURSIVE SumSeq(_)
SumSeq(q) == IF q = <<>> THEN 0 ELSE q[1] + SumSeq(Tail(q))

\* the operation failed twice with retryable errors and then succeeded
FailsTwiceThenSucceeds ==
  /\ fn[1] # "ok" /\ fn[2] # "ok" /\ fn[3] = "ok"
  /\ \A i \in 1..2 : ShouldRetry(shouldRetry, fn[i])

\* C11: when the last invocation failed and the attempts are exhausted or
\* shouldRetry refuses the error, withRetry has ended by throwing that very
\* error (the error of invocation number `calls`), with no invocation and no
\* delay after it: one delay per earlier failure, none for the last.
C11_ThrowsLastErrorAtOnce ==
  ( /\ calls > 0
    /\ fn[calls] # "ok"
    /\ (rAttempt >= retries \/ ~ShouldRetry(shouldRetry, fn[calls])) )
  => /\ rpc = "done"
     /\ result = <<"threw", fn[calls], calls>>
     /\ Len(slept) = calls - 1

\* both ways of giving up are reached: a refused error and exhausted attempts
C11_Witness ==
  /\ rpc = "done"
  /\ shouldRetry = "notFatal"
  /\ retries = 3
  /\ calls = 2
  /\ result = <<"threw", "fatal", 2>>
  /\ Len(slept) = 1

C13_ReadmeDelays ==
  ( /\ rpc = "done" /\ retries = 2 /\ baseDelay = 100
    /\ result[1] = "threw" /\ shouldRetry = "always" )
  => slept = <<100, 200, 400>>

\* ---- worker claims
InQueue(q, t) == \E i \in 1..Len(q) : q[i].tag = t
Held(t) == \E w \in Workers : cur[w].tag = t
HasRecord(id) == \E i \in 1..Len(processedMessage) : processedMessage[i].messageId = id
Records(id) == {i \in 1..Len(processedMessage) : processedMessage[i].messageId = id}
ValidEvent(content) == JSONparses(content) /\ taskCreatedEventSchema(content)
\* the message has left main, retry and the workers
Settled(t) == acks[t] > 0 /\ ~InQueue(MAIN, t) /\ ~InQueue(RETRY, t) /\ ~Held(t)

\* C14: a message whose body is not JSON or fails the event schema is put on
\* the dead-letter queue and acknowledged at its first delivery; it is never
\* on the retry queue and never comes back to main.
C14_InvalidStraightToDeadLetter ==
  \A t \in Tags :
    ~ValidEvent(sent[t])
      => /\ ~InQueue(RETRY, t)
         /\ returned[t] = 0
         /\ (acks[t] > 0 => InQueue(DLQ, t))

\* C15: a message that parses but carries no metadata.eventId is acknowledged
\* and dropped: it is on neither the retry nor the dead-letter queue, no
\* email is sent for it and no ledger row is written for it.
C15_NoEventIdDropped ==
  \A t \in Tags :
    (JSONparses(sent[t]) /\ messageId(sent[t]) = 0)
      => /\ ~InQueue(RETRY, t)
         /\ ~InQueue(DLQ, t)
         /\ ~HasRecord(0)

\* C16: when the ledger lookup of a delivery finds a row for its eventId, the
\* worker acknowledges the delivery and changes nothing else: no email, no
\* ledger row added or changed, nothing put on main, retry or dead-letter.
C16_DuplicateOnlyAcknowledged ==
  [][\A w \in Workers :
       (Lookup(w) /\ HasRecord(messageId(cur[w].content)))
         => /\ acks'[cur[w].tag] = acks[cur[w].tag] + 1
            /\ wpc'[w] = "idle"
            /\ emails' = emails
            /\ processedMessage' = processedMessage
            /\ MAIN' = MAIN /\ RETRY' = RETRY /\ DLQ' = DLQ]_vars

\* two copies of one event: the first was processed, the second skipped
C16_Witness ==
  /\ \A t \in Tags : ValidEvent(sent[t]) /\ Settled(t) /\ returned[t] = 0
  /\ NMsg >= 2
  /\ DLQ = <<>>
  /\ Len(processedMessage) = 1
  /\ emails[1] = 1

\* C17: a delivery whose work failed goes to the retry queue with its count
\* raised by one while the count is below MAX_RETRIES, and to the dead-letter
\* queue once the count has reached MAX_RETRIES; main is not touched; no
\* message comes back from retry to main more than MAX_RETRIES times.
C17_RetryTierThenDeadLetter ==
  /\ [](\A t \in Tags : returned[t] <= MAX_RETRIES)
  /\ [](\A i \in 1..Len(RETRY) : RETRY[i].count \in 1..MAX_RETRIES)
  /\ [](\A i \in 1..Len(MAIN) : MAIN[i].count = returned[MAIN[i].tag])
  /\ [][\A w \in Workers :
         WorkFails(w)
           => /\ MAIN' = MAIN
              /\ IF cur[w].count < MAX_RETRIES
                   THEN /\ RETRY' = Append(RETRY, [cur[w] EXCEPT !.count = cur[w].count + 1])
                        /\ DLQ' = DLQ
                   ELSE /\ RETRY' = RETRY
                        /\ Len(DLQ') = Len(DLQ) + 1
                        /\ DLQ'[Len(DLQ')].tag = cur[w].tag]_vars

\* a valid event that came back MAX_RETRIES times and was then dead-lettered
C17_Witness ==
  \E t \in Tags :
    /\ ValidEvent(sent[t])
    /\ returned[t] = MAX_RETRIES
    /\ acks[t] = MAX_RETRIES + 1
    /\ InQueue(DLQ, t)

\* C18: a message whose work fails at every attempt is eventually on the
\* dead-letter queue, and from then on stays there and is on neither the
\* main nor the retry queue.
C18_AlwaysFailingEndsDeadLettered ==
  \A t \in Tags :
    (ValidEvent(sent[t]) /\ messageId(sent[t]) \in poison)
      ~> [](InQueue(DLQ, t) /\ ~InQueue(MAIN, t) /\ ~InQueue(RETRY, t) /\ ~Held(t))

\* every message was a poisoned event and all of them are dead-lettered
C18_Witness ==
  /\ poison = {1}
  /\ \A t \in Tags : ValidEvent(sent[t]) /\ InQueue(DLQ, t) /\ Settled(t)
  /\ Len(DLQ) = NMsg
  /\ processedMessage = <<>>
  /\ emails[1] = 0

\* C19: a worker whose ledger insert is rejected by the unique index
\* acknowledges the delivery and puts nothing on the retry or dead-letter
\* queue.
C19_ConflictAcknowledgedQuietly ==
  [][\A w \in Workers :
       (Create(w) /\ HasRecord(messageId(cur[w].content)))
         => /\ acks'[cur[w].tag] = acks[cur[w].tag] + 1
            /\ RETRY' = RETRY
            /\ DLQ' = DLQ]_vars

\* C20: the ledger holds at most one row per eventId; two deliveries of one
\* event that were both handled without dead-lettering leave exactly one row.
C20_OneRecordPerEvent ==
  \A id \in EventIds :
    /\ Cardinality(Records(id)) <= 1
    /\ \A t1, t2 \in Tags :
         ( /\ t1 # t2
           /\ sent[t1] = Event("task.created", id) /\ sent[t2] = Event("task.created", id)
           /\ Settled(t1) /\ Settled(t2)
           /\ ~InQueue(DLQ, t1) /\ ~InQueue(DLQ, t2) )
         => Cardinality(Records(id)) = 1

\* two workers raced on one event: both sent the email, one row was written
C20_Witness ==
  /\ \A t \in Tags : sent[t] = Event("task.created", 1) /\ Settled(t)
  /\ NMsg >= 2
  /\ DLQ = <<>>
  /\ emails[1] = 2
  /\ \E t \in Tags : returned[t] = 1
  /\ Cardinality(Records(1)) = 1

\* C21: however often a message with one eventId is delivered (again after
\* a failure, or to several workers at once), the email for that eventId is
\* sent at most once.
C21_EmailSentOnce ==
  \A id \in EventIds : emails[id] <= 1

\* ---- cleanup claims
RowSet(rows) == {rows[i] : i \in 1..Len(rows)}

\* C22: one run of the cleanup job at time now removes exactly the ledger
\* rows with processedAt < now - DAYS and keeps every row with
\* processedAt >= now - DAYS, reporting the number removed; and a delivery
\* of an eventId no later than DAYS after its row was written finds the row.
C22_EvictsOnlyOlderThanWindow ==
  /\ [][Cleanup =>
          /\ RowSet(processedMessage') =
               {row \in RowSet(processedMessage) : row.processedAt >= now - DAYS}
          /\ deleted' = Cardinality({row \in RowSet(processedMessage) :
                                        row.processedAt < now - DAYS})]_vars
  /\ [](\A id \in EventIds :
          (seen[id].res = "miss" /\ seen[id].since # -1)
            => seen[id].at - seen[id].since > DAYS)

\* a run removed a row and kept none; the same event, delivered exactly DAYS
\* after an insert, had been found
C22_Witness ==
  /\ deleted = 1
  /\ processedMessage = <<>>
  /\ ranAt = DAYS + 1
  /\ done[1] = 0
  /\ seen[1] = [res |-> "hit", at |-> DAYS, since |-> 0]

\* ---- gate and route claims, continued
\* C23: the gate's cache calls (the result lookup and the lock SET NX) go
\* through the retry wrapper: the first failure of such a call does not
\* answer 503; the request is still in the gate, about to make the call
\* again.
C23_SingleCacheFailureRetried ==
  [][\A r \in Reqs :
       (r \notin cacheErr /\ r \in cacheErr')
         => /\ resp'[r] # MwUnavailable
            /\ pc'[r] \in {"start", "mwLock"}]_vars

\* C24: a GET /tasks whose Redis get or set kept failing until withRetry gave
\* up goes on without the cache: it is never answered with an error, it
\* reads the database, and its answer is 200 with what it read there.
C24_CacheFailureStillAnswers200 ==
  /\ [](\A r \in CReqs :
          (IsGet(r) /\ r \in cacheErr)
            => /\ pc[r] \in {"dbRead", "cacheSet", "done"}
               /\ resp[r] # NoResp => resp[r] = ListPayload(task[r]))
  /\ [][\A r \in CReqs :
          (IsGet(r) /\ pc[r] = "cacheSet" /\ pc'[r] = "done")
            => resp'[r] = ListPayload(task[r])]_vars

\* the get and the set both failed, a mutation was committed before the
\* read, and the answer is 200 with the data read
C24_Witness ==
  \E r \in CReqs :
    /\ IsGet(r) /\ r \in cacheErr
    /\ pc[r] = "done"
    /\ resp[r] = ListPayload(1)
    /\ redis[taskListKey] = Nil
    /\ taskListKey \notin expired

\* C25: once a mutation has been answered 200, no GET /tasks is answered
\* from a cache entry computed from the database as it was before that
\* mutation.
C25_NoStaleListAfterMutation ==
  [][\A r \in CReqs :
       (IsGet(r) /\ pc[r] = "cacheGet" /\ pc'[r] = "done")
         => \A m \in CReqs :
              (~IsGet(m) /\ pc[m] = "done" /\ resp[m].status = 200)
                => resp'[r].body.data >= task[m]]_vars

C27_EventIdFixedAcrossAttempts ==
  /\ \A r \in Reqs :
       (IsPost(r) /\ pc[r] = "publish")
         => /\ attempt[r] \in 0..(PublishRetries - 1)
            /\ evt[r] = randomUUID(r)
            /\ task[r] # NoData
  /\ \A i \in 1..Len(queue) :
       queue[i].type = "task.created"
         => \E r \in Reqs :
              /\ IsPost(r)
              /\ queue[i].eventId = evt[r]
              /\ queue[i].payload = task[r]
              /\ \A j \in 1..Len(queue) : queue[j].eventId = evt[r] => j = i

\* the event reached the queue at the third attempt
C27_Witness ==
  \E r \in Reqs :
    /\ IsPost(r)
    /\ attempt[r] = PublishRetries - 1
    /\ evt[r] # 0
    /\ \E i \in 1..Len(queue) : queue[i].eventId = evt[r] /\ queue[i].payload = task[r]

\* ---- lock and stored-response claims
\* C28: a request deletes the lock of its key only while it is the holder,
\* that is the request whose SET NX last created the entry.
C28_LockDeletedByHolderOnly ==
  [][\A r \in Reqs :
       ( /\ pc[r] \in {"release", "finally"}
         /\ pc'[r] # pc[r]
         /\ redis[lockKey(req[r].key)] # Nil
         /\ redis'[lockKey(req[r].key)] = Nil )
       => lockOwner[req[r].key] = r]_vars

\* C29: the response stored for a key by a request is the status and body
\* that request delivered to its client.
C29_StoredIsWhatClientGot ==
  \A r \in Reqs :
    ( /\ HasKey(r) /\ Proceeded(r) /\ Answered(r)
      /\ task[r] # NoData
      /\ redis[ResultKey(r)] # Nil
      /\ JSONparse(redis[ResultKey(r)]).body.data = task[r] )
    => JSONparse(redis[ResultKey(r)]) = resp[r]

\* ---- acknowledgement
Copies(q, t) == Cardinality({i \in 1..Len(q) : q[i].tag = t})
Holders(t) == Cardinality({w \in Workers : cur[w].tag = t})
\* deliveries of the message so far: it started on main and came back
\* `returned` times; what is still on main has not been delivered
Deliveries(t) == 1 + returned[t] - Copies(MAIN, t)

\* C30: every delivery is acknowledged exactly once: the acknowledgements of
\* a message are its deliveries less those whose callback is still running
\* (never more, and none missing once the callback has ended).
C30_AckedExactlyOnce ==
  \A t \in Tags :
    /\ acks[t] = Deliveries(t) - Holders(t)
    /\ Holders(t) <= 1

\* an invalid message dead-lettered at once, and a valid one that failed,
\* was retried and then processed
C30_Witness ==
  \E t1, t2 \in Tags :
    /\ ~ValidEvent(sent[t1]) /\ JSONparses(sent[t1])
    /\ acks[t1] = 1 /\ InQueue(DLQ, t1)
    /\ ValidEvent(sent[t2])
    /\ acks[t2] = 2 /\ returned[t2] = 1
    /\ HasRecord(messageId(sent[t2]))
    /\ MAIN = <<>> /\ RETRY = <<>>
    /\ \A w \in Workers : wpc[w] = "idle"

====
